---- MODULE Spec2Model ----
(***************************************************************************)
(* Model of convert_avi_to_mp4_cross_platform.py: the batch orchestrator   *)
(* main(), the tool availability checker check_requirements(), the file    *)
(* discoverer find_avi_files() and the conversion runner                   *)
(* convert_avi_to_mp4().  The two external tools, the file system calls    *)
(* and the command line are the environment: their outcomes are inputs.    *)
(***************************************************************************)
EXTENDS Integers, Sequences, FiniteSets, TLC

(* ------------------------------ bounds -------------------------------- *)

\* longest command line (number of tokens after the program name)
MaxArgs == 2

\* number of files of Tree that may be present under the working directory
MaxFiles == 3

(* --------------------------- the environment -------------------------- *)

FlagTok == "--remove_original_file"

\* tokens a command line is made of
Tokens == {FlagTok, "sub", "nodir", ""}

\* os.getcwd(): the default of the positional argument
Cwd == "."

\* directories that exist: the working directory and its subdirectory sub
ExistingDirs == {Cwd, "sub"}

\* the required programs, in the order check_requirements looks them up
RequiredTools == <<"mplayer", "ffmpeg">>

\* files that may lie in the tree, in directory-traversal order; dir is the
\* directory relative to the working directory, stem and ext split the name
Tree ==
  << [dir |-> <<>>,      stem |-> "a", ext |-> <<"a", "v", "i">>],
     [dir |-> <<>>,      stem |-> "c", ext |-> <<"t", "x", "t">>],
     [dir |-> <<"sub">>, stem |-> "a", ext |-> <<"A", "v", "i">>],
     [dir |-> <<>>,      stem |-> "b", ext |-> <<"A", "V", "I">>],
     [dir |-> <<"sub">>, stem |-> "b", ext |-> <<"a", "v", "I">>] >>

Min(a, b) == IF a < b THEN a ELSE b

Candidates == { Tree[i] : i \in 1..Min(MaxFiles, Len(Tree)) }

\* all command lines of at most MaxArgs tokens
ArgvChoices == UNION { [1..n -> Tokens] : n \in 0..MaxArgs }

(* ------------------------- Python values ------------------------------ *)

\* the three kinds of value args.remove_original_file can hold
PyFalse == [kind |-> "bool", s |-> "False"]
PyNone == [kind |-> "none", s |-> "None"]
PyStr(t) == [kind |-> "str", s |-> t]

\* truth value of "if remove_original_file:"
Truthy(v) == v.kind = "str" /\ v.s # ""

(* ------------------------- pure functions ----------------------------- *)

\* parser.parse_args(): the positional directory (nargs='?', default cwd)
\* and the option --remove_original_file (nargs='?', default False and no
\* const, so the bare option yields None).  i is the next token, acc the
\* namespace built so far; a second positional is an unrecognized argument.
RECURSIVE ParseFrom(_, _, _)
ParseFrom(av, i, acc) ==
  IF i > Len(av) THEN acc
  ELSE IF av[i] = FlagTok
       THEN IF i + 1 <= Len(av) /\ av[i + 1] # FlagTok
            THEN ParseFrom(av, i + 2,
                           [acc EXCEPT !.remove_original_file = PyStr(av[i + 1])])
            ELSE ParseFrom(av, i + 1,
                           [acc EXCEPT !.remove_original_file = PyNone])
       ELSE IF acc.positional
            THEN [acc EXCEPT !.error = TRUE]
            ELSE ParseFrom(av, i + 1,
                           [acc EXCEPT !.directory = av[i], !.positional = TRUE])

parse_args(av) ==
  ParseFrom(av, 1, [directory |-> Cwd, remove_original_file |-> PyFalse,
                    positional |-> FALSE, error |-> FALSE])

\* the directory check left out
DirMissingUnchecked(d) == FALSE

\* "not os.path.isdir(target_dir)"
DirMissing(d) == d \notin ExistingDirs

\* the path of directory d relative to the working directory
DirParts(d) == IF d = Cwd THEN <<>> ELSE <<d>>

IsPrefix(p, q) == Len(p) <= Len(q) /\ SubSeq(q, 1, Len(p)) = p

\* the glob pattern *.[aA][vV][iI] applied to an extension
MatchesAvi(ext) ==
  /\ Len(ext) = 3
  /\ ext[1] \in {"a", "A"}
  /\ ext[2] \in {"v", "V"}
  /\ ext[3] \in {"i", "I"}

\* find_avi_files(directory): the matching files anywhere below directory,
\* in traversal order
find_avi_files(present, d) ==
  SelectSeq(Tree, LAMBDA f : /\ f \in present
                             /\ IsPrefix(DirParts(d), f.dir)
                             /\ MatchesAvi(f.ext))

\* output_mp4 = file_path.with_suffix('.mp4'): a sibling of the input
OutputPath(f) == [f EXCEPT !.ext = <<"m", "p", "4">>]

\* temp_h264 = os.path.join(temp_dir, base_name + ".h264"): the name of the
\* intermediate file inside the temporary directory
TempName(f) == f.stem

\* the step failing only when both signs of failure are present
MplayerFailedBoth(rc, exists) == rc # 0 /\ ~exists

\* "process.returncode != 0 or not os.path.exists(temp_h264)"
MplayerFailed(rc, exists) == rc # 0 \/ ~exists

\* "process.returncode != 0 or not os.path.exists(output_mp4)"
FfmpegFailed(rc, exists) == rc # 0 \/ ~exists

\* the removal applied to the output instead of the input
RemoveOutput(files, f) == files \ {OutputPath(f)}

\* os.remove(avi_file)
RemoveOriginal(files, f) == files \ {f}

\* a loop that skips every other file
NextIndexSkip(i) == i + 2

\* the loop variable of "for avi_file in avi_files" after one iteration
NextIndex(i) == i + 1

\* the failure count listed unconditionally
FailedShownAlways(n) == TRUE

\* "if failed > 0": whether the summary lists the failure count
FailedShown(n) == n > 0

\* a temporary directory that is left behind
TempKept(st) == st

\* the state of the temporary directory when the with block is left
TempAfterExit(st) == "removed"

\* the statuses main returns
StatusOk == 0
StatusFatal == 1
\* the status argparse exits with on a usage error
StatusUsage == 2

\* a final status that reports per-file failures
FinalStatusByFailures(n) == IF n > 0 THEN StatusFatal ELSE StatusOk

\* "return 0" after the summary, whatever the number n of failed files
FinalStatus(n) == StatusOk

\* check_requirements' is_tool applied to both programs: the missing ones
MissingPrograms(onPath) ==
  SelectSeq(RequiredTools, LAMBDA t : t \notin onPath)

(* ------------------------------ state --------------------------------- *)

VARIABLES
  argv,          \* sys.argv[1:]
  toolsOnPath,   \* the programs "which"/"where" resolves
  tree0,         \* the files below the working directory when main starts
  fs,            \* the files that exist below the working directory
  tmp,           \* the files in the temporary directory: name and the input
                 \* whose video stream the file holds
  tempState,     \* "none", "created" or "removed": the temporary directory
  cleanups,      \* how many times the temporary directory was removed
  pc,            \* main's position
  args,          \* the namespace parse_args returned
  toolCheck,     \* whether check_requirements has run
  searched,      \* whether find_avi_files has run
  avi_files,     \* the list find_avi_files returned
  idx,           \* index of the loop's current file in avi_files
  successful,    \* main's counter of converted files
  failed,        \* main's counter of failed files
  ret,           \* what convert_avi_to_mp4 returned for the current file
  runnerCalls,   \* the calls of convert_avi_to_mp4: file and deletion flag
  toolLog,       \* the invocations of mplayer and ffmpeg and their outcomes
  results,       \* the returned value of each call of convert_avi_to_mp4
  stdout,        \* the lines printed that report counts
  exitStatus     \* {} while running, {status} once the process has a status

vars == << argv, toolsOnPath, tree0, fs, tmp, tempState, cleanups, pc, args,
           toolCheck, searched, avi_files, idx, successful, failed, ret,
           runnerCalls, toolLog, results, stdout, exitStatus >>

\* the positions inside "with tempfile.TemporaryDirectory() as temp_dir"
InWith == {"discover", "loop", "mplayer", "ffmpeg", "verify", "count", "summary"}

\* the positions at which the process has ended
Ended == {"returned", "usage_error", "fault"}

\* the file the loop is at
avi_file == avi_files[idx]

Init ==
  /\ argv \in ArgvChoices
  /\ toolsOnPath \in SUBSET {"mplayer", "ffmpeg"}
  /\ tree0 \in SUBSET Candidates
  /\ fs = tree0
  /\ tmp = {}
  /\ tempState = "none"
  /\ cleanups = 0
  /\ pc = "parse"
  /\ args = parse_args(<<>>)
  /\ toolCheck = FALSE
  /\ searched = FALSE
  /\ avi_files = <<>>
  /\ idx = 0
  /\ successful = 0
  /\ failed = 0
  /\ ret = FALSE
  /\ runnerCalls = <<>>
  /\ toolLog = <<>>
  /\ results = <<>>
  /\ stdout = <<>>
  /\ exitStatus = {}

(* ------------------------------ main ---------------------------------- *)

\* args = parser.parse_args(); a usage error exits the process
ParseArgs ==
  /\ pc = "parse"
  /\ LET ns == parse_args(argv) IN
       IF ns.error
       THEN /\ pc' = "usage_error"
            /\ exitStatus' = {StatusUsage}
            /\ UNCHANGED args
       ELSE /\ pc' = "checkdir"
            /\ args' = ns
            /\ UNCHANGED exitStatus
  /\ UNCHANGED << argv, toolsOnPath, tree0, fs, tmp, tempState, cleanups,
                  toolCheck, searched, avi_files, idx, successful, failed,
                  ret, runnerCalls, toolLog, results, stdout >>

\* "if not os.path.isdir(target_dir): ... return 1"
CheckDir ==
  /\ pc = "checkdir"
  /\ IF DirMissing(args.directory)
     THEN /\ pc' = "returned"
          /\ exitStatus' = {StatusFatal}
     ELSE /\ pc' = "checkreq"
          /\ UNCHANGED exitStatus
  /\ UNCHANGED << argv, toolsOnPath, tree0, fs, tmp, tempState, cleanups,
                  args, toolCheck, searched, avi_files, idx, successful,
                  failed, ret, runnerCalls, toolLog, results, stdout >>

\* "if not check_requirements(): return 1"
CheckRequirements ==
  /\ pc = "checkreq"
  /\ toolCheck' = TRUE
  /\ IF MissingPrograms(toolsOnPath) # <<>>
     THEN /\ pc' = "returned"
          /\ exitStatus' = {StatusFatal}
     ELSE /\ pc' = "mktemp"
          /\ UNCHANGED exitStatus
  /\ UNCHANGED << argv, toolsOnPath, tree0, fs, tmp, tempState, cleanups,
                  args, searched, avi_files, idx, successful, failed, ret,
                  runnerCalls, toolLog, results, stdout >>

\* entering "with tempfile.TemporaryDirectory() as temp_dir"
CreateTemp ==
  /\ pc = "mktemp"
  /\ tempState' = "created"
  /\ pc' = "discover"
  /\ UNCHANGED << argv, toolsOnPath, tree0, fs, tmp, cleanups, args,
                  toolCheck, searched, avi_files, idx, successful, failed,
                  ret, runnerCalls, toolLog, results, stdout, exitStatus >>

\* leaving the with block: the directory and its contents are removed
LeaveWith ==
  /\ tempState' = TempAfterExit(tempState)
  /\ tmp' = IF tempState' = "removed" THEN {} ELSE tmp
  /\ cleanups' = IF tempState' = "removed" THEN cleanups + 1 ELSE cleanups

\* avi_files = find_avi_files(target_dir); with no file found main prints
\* one message and returns 0 from inside the with block
Discover ==
  /\ pc = "discover"
  /\ LET found == find_avi_files(fs, args.directory) IN
       /\ avi_files' = found
       /\ searched' = TRUE
       /\ IF found = <<>>
          THEN /\ stdout' = Append(stdout, [line |-> "No AVI files found", n |-> 0])
               /\ LeaveWith
               /\ pc' = "returned"
               /\ exitStatus' = {StatusOk}
               /\ UNCHANGED idx
          ELSE /\ pc' = "loop"
               /\ idx' = 1
               /\ UNCHANGED << stdout, tmp, tempState, cleanups, exitStatus >>
  /\ UNCHANGED << argv, toolsOnPath, tree0, fs, args, toolCheck, successful,
                  failed, ret, runnerCalls, toolLog, results >>

\* "for avi_file in avi_files": the next file enters convert_avi_to_mp4,
\* which derives its paths and announces the file; after the last file the
\* loop ends
LoopNext ==
  /\ pc = "loop"
  /\ IF idx <= Len(avi_files)
     THEN /\ runnerCalls' = Append(runnerCalls,
                                   [file |-> avi_file,
                                    remove |-> args.remove_original_file])
          /\ pc' = "mplayer"
     ELSE /\ pc' = "summary"
          /\ UNCHANGED runnerCalls
  /\ UNCHANGED << argv, toolsOnPath, tree0, fs, tmp, tempState, cleanups,
                  args, toolCheck, searched, avi_files, idx, successful,
                  failed, ret, toolLog, results, stdout, exitStatus >>

(* ----------------------- convert_avi_to_mp4 --------------------------- *)

\* the deletion flag the current call was given
remove_original_file == runnerCalls[Len(runnerCalls)].remove

\* os.path.exists(temp_h264) in temporary directory t
TempExists(t, f) == \E e \in t : e.name = TempName(f)

\* convert_avi_to_mp4 returns r for the current file
Return(r) ==
  /\ ret' = r
  /\ results' = Append(results, [file |-> avi_file, ret |-> r])
  /\ pc' = "count"

\* Step 1: subprocess.run(mplayer -dumpvideo -dumpfile temp_h264 avi_file).
\* The call raises, or the program ends with a return code, having written
\* the dump file or not.
RunMplayer ==
  /\ pc = "mplayer"
  /\ \E raised \in BOOLEAN, rc \in {0, 1}, wrote \in BOOLEAN :
       /\ raised => (rc = 0 /\ ~wrote)
       /\ LET f == avi_file
              t == IF wrote
                   THEN {e \in tmp : e.name # TempName(f)}
                          \cup {[name |-> TempName(f), src |-> f]}
                   ELSE tmp
              exists == TempExists(t, f)
          IN /\ tmp' = t
             /\ toolLog' = Append(toolLog,
                                  [tool |-> "mplayer", file |-> f, rc |-> rc,
                                   raised |-> raised, wrote |-> wrote,
                                   exists |-> exists, src |-> f])
             /\ IF raised \/ MplayerFailed(rc, exists)
                THEN Return(FALSE)
                ELSE /\ pc' = "ffmpeg"
                     /\ UNCHANGED << ret, results >>
  /\ UNCHANGED << argv, toolsOnPath, tree0, fs, tempState, cleanups, args,
                  toolCheck, searched, avi_files, idx, successful, failed,
                  runnerCalls, stdout, exitStatus >>

\* Step 2: subprocess.run(ffmpeg ... -i temp_h264 -c:v copy output_mp4).
\* src is the input whose stream the consumed intermediate file holds.
RunFfmpeg ==
  /\ pc = "ffmpeg"
  /\ \E raised \in BOOLEAN, rc \in {0, 1}, wrote \in BOOLEAN :
       /\ raised => (rc = 0 /\ ~wrote)
       /\ LET f == avi_file
              files == IF wrote THEN fs \cup {OutputPath(f)} ELSE fs
              exists == OutputPath(f) \in files
              consumed == CHOOSE e \in tmp : e.name = TempName(f)
          IN /\ fs' = files
             /\ toolLog' = Append(toolLog,
                                  [tool |-> "ffmpeg", file |-> f, rc |-> rc,
                                   raised |-> raised, wrote |-> wrote,
                                   exists |-> exists, src |-> consumed.src])
             /\ IF raised \/ FfmpegFailed(rc, exists)
                THEN Return(FALSE)
                ELSE /\ pc' = "verify"
                     /\ UNCHANGED << ret, results >>
  /\ UNCHANGED << argv, toolsOnPath, tree0, tmp, tempState, cleanups, args,
                  toolCheck, searched, avi_files, idx, successful, failed,
                  runnerCalls, stdout, exitStatus >>

\* Step 3: os.path.getsize(output_mp4), the success line, and with the
\* deletion flag os.remove(avi_file); an exception of either call is caught
\* by the one handler and turned into a returned False
Verify ==
  /\ pc = "verify"
  /\ \E removed \in BOOLEAN :
       LET f == avi_file IN
         IF OutputPath(f) \notin fs
         THEN /\ Return(FALSE)
              /\ UNCHANGED fs
         ELSE IF Truthy(remove_original_file)
              THEN IF removed
                   THEN /\ fs' = RemoveOriginal(fs, f)
                        /\ Return(TRUE)
                   ELSE /\ Return(FALSE)
                        /\ UNCHANGED fs
              ELSE /\ Return(TRUE)
                   /\ UNCHANGED fs
  /\ UNCHANGED << argv, toolsOnPath, tree0, tmp, tempState, cleanups, args,
                  toolCheck, searched, avi_files, idx, successful, failed,
                  runnerCalls, toolLog, stdout, exitStatus >>

(* -------------------------- main, continued --------------------------- *)

\* "if convert_avi_to_mp4(...): successful += 1 else: failed += 1"
Count ==
  /\ pc = "count"
  /\ IF ret
     THEN /\ successful' = successful + 1
          /\ UNCHANGED failed
     ELSE /\ failed' = failed + 1
          /\ UNCHANGED successful
  /\ idx' = NextIndex(idx)
  /\ pc' = "loop"
  /\ UNCHANGED << argv, toolsOnPath, tree0, fs, tmp, tempState, cleanups,
                  args, toolCheck, searched, avi_files, ret, runnerCalls,
                  toolLog, results, stdout, exitStatus >>

\* the lines of the summary that report counts
SummaryLines ==
  << [line |-> "Total AVI files found", n |-> Len(avi_files)],
     [line |-> "Successfully converted", n |-> successful] >>
  \o (IF FailedShown(failed)
      THEN << [line |-> "Failed conversions", n |-> failed] >>
      ELSE << >>)

\* the summary after the loop, the end of the with block and "return 0"
Summary ==
  /\ pc = "summary"
  /\ stdout' = stdout \o SummaryLines
  /\ LeaveWith
  /\ pc' = "returned"
  /\ exitStatus' = {FinalStatus(failed)}
  /\ UNCHANGED << argv, toolsOnPath, tree0, fs, args, toolCheck, searched,
                  avi_files, idx, successful, failed, ret, runnerCalls,
                  toolLog, results >>

\* an exception no handler of the script catches (KeyboardInterrupt, a
\* failing print) propagates out of the with block: the context manager
\* removes the directory and main returns nothing
Interrupt ==
  /\ pc \in InWith
  /\ LeaveWith
  /\ pc' = "fault"
  /\ UNCHANGED << argv, toolsOnPath, tree0, fs, args, toolCheck, searched,
                  avi_files, idx, successful, failed, ret, runnerCalls,
                  toolLog, results, stdout, exitStatus >>

Next ==
  \/ ParseArgs
  \/ CheckDir
  \/ CheckRequirements
  \/ CreateTemp
  \/ Discover
  \/ LoopNext
  \/ RunMplayer
  \/ RunFfmpeg
  \/ Verify
  \/ Count
  \/ Summary
  \/ Interrupt

Spec == Init /\ [][Next]_vars

(* ------------------------- reading the logs --------------------------- *)

\* a deletion flag under which the runner is asked to delete
FlagEnabled(v) == v \notin {PyFalse, PyNone, PyStr("")}

\* the invocations of a tool for file f
LogOf(tool, f) ==
  {i \in DOMAIN toolLog : toolLog[i].tool = tool /\ toolLog[i].file = f}

\* an invocation that failed: an exception, a non-zero exit code, or no
\* file where the tool was to write
EntryFailed(e) == e.raised \/ e.rc # 0 \/ ~e.exists

ToolSucceeded(tool, f) == \E i \in LogOf(tool, f) : ~EntryFailed(toolLog[i])

ToolsPresent == {"mplayer", "ffmpeg"} \subseteq toolsOnPath

TargetExists == args.directory \in ExistingDirs

\* the run went past both fatal preconditions and main returned
CompletedRun == pc = "returned" /\ TargetExists /\ ToolsPresent

HasLine(l, k) == \E i \in DOMAIN stdout : stdout[i] = [line |-> l, n |-> k]

HasLineNamed(l) == \E i \in DOMAIN stdout : stdout[i].line = l

NumResults(b) == Cardinality({k \in DOMAIN results : results[k].ret = b})

(* ------------------------------ claims -------------------------------- *)

\* C1: when mplayer fails for a file (exception, non-zero exit code or no
\* intermediate file afterwards), ffmpeg is never invoked for that file, the
\* runner returns False for it, and main counts it as failed: the counters
\* equal the numbers of False and of True results.
C1_ToolAFailureFailsFile ==
  /\ \A i \in DOMAIN toolLog :
       (toolLog[i].tool = "mplayer" /\ EntryFailed(toolLog[i])) =>
         /\ LogOf("ffmpeg", toolLog[i].file) = {}
         /\ \E k \in DOMAIN results :
              results[k].file = toolLog[i].file /\ ~results[k].ret
         /\ \A k \in DOMAIN results :
              results[k].file = toolLog[i].file => ~results[k].ret
  /\ pc \notin {"count", "fault"} =>
       /\ failed = NumResults(FALSE)
       /\ successful = NumResults(TRUE)

C1_Witness ==
  /\ pc = "summary"
  /\ successful >= 1
  /\ failed >= 1
  /\ \E i \in DOMAIN toolLog :
       /\ toolLog[i].tool = "mplayer"
       /\ toolLog[i].rc # 0
       /\ toolLog[i].exists

\* C2: the runner returns True if and only if both tool invocations for the
\* file succeeded and the output file was confirmed to exist, whatever the
\* deletion flag and the outcome of removing the original.
C2_TrueIffBothToolsSucceeded ==
  \A k \in DOMAIN results :
    results[k].ret <=> /\ ToolSucceeded("mplayer", results[k].file)
                       /\ ToolSucceeded("ffmpeg", results[k].file)

\* C3: after a conversion that returned True the output exists, and the
\* original is gone if the runner's deletion flag was enabled and is still
\* there if it was disabled; a file whose conversion failed at mplayer or at
\* ffmpeg is never deleted.
C3_DeletionFollowsFlag ==
  \A k \in DOMAIN results :
    LET f == results[k].file
        flag == runnerCalls[k].remove
    IN /\ results[k].ret =>
            /\ OutputPath(f) \in fs
            /\ FlagEnabled(flag) => f \notin fs
            /\ ~FlagEnabled(flag) => f \in fs
       /\ (~ToolSucceeded("mplayer", f) \/ ~ToolSucceeded("ffmpeg", f)) =>
            f \in fs

C3_Witness ==
  \E k \in DOMAIN results :
    /\ results[k].ret
    /\ FlagEnabled(runnerCalls[k].remove)
    /\ results[k].file \notin fs
    /\ OutputPath(results[k].file) \in fs
    /\ \E j \in DOMAIN results : ~results[j].ret /\ results[j].file \in fs

\* the option does not occur on the command line
FlagAbsent == \A i \in DOMAIN argv : argv[i] # FlagTok

\* the option occurs, and every occurrence is without a value
FlagBare ==
  /\ \E i \in DOMAIN argv : argv[i] = FlagTok
  /\ \A i \in DOMAIN argv :
       argv[i] = FlagTok => (i = Len(argv) \/ argv[i + 1] = FlagTok)

\* C4: without --remove_original_file on the command line every call of the
\* runner has deletion disabled, and with the bare option on the command
\* line every call of the runner has deletion enabled.
C4_FlagSwitchesDeletion ==
  \A k \in DOMAIN runnerCalls :
    /\ FlagAbsent => ~FlagEnabled(runnerCalls[k].remove)
    /\ FlagBare => FlagEnabled(runnerCalls[k].remove)

\* C5: main returns 1 exactly when the target directory does not exist or a
\* required tool is missing, and 0 in every other run, whatever the per-file
\* outcomes and also when no file is found.
C5_ExitStatus ==
  pc = "returned" =>
    /\ exitStatus \in {{0}, {1}}
    /\ exitStatus = {1} <=> (~TargetExists \/ ~ToolsPresent)

C5_Witness ==
  /\ pc = "returned"
  /\ exitStatus = {0}
  /\ Len(avi_files) >= 2
  /\ failed = Len(avi_files)

\* C6: a missing target directory ends the run with status 1 before the
\* temporary directory is created and before the tools are looked up; a
\* missing tool ends the run with status 1 before discovery and before the
\* runner is called: no tool runs, no file is written or deleted.
C6_FatalPreconditionsFirst ==
  /\ (pc \notin {"parse", "usage_error"} /\ ~TargetExists) =>
       /\ pc \in {"checkdir", "returned"}
       /\ pc = "returned" => exitStatus = {1}
       /\ tempState = "none"
       /\ ~toolCheck
       /\ ~searched /\ runnerCalls = <<>> /\ toolLog = <<>> /\ fs = tree0
  /\ (pc \notin {"parse", "usage_error"} /\ TargetExists /\ ~ToolsPresent) =>
       /\ pc \in {"checkdir", "checkreq", "returned"}
       /\ pc = "returned" => exitStatus = {1} /\ toolCheck
       /\ ~searched /\ runnerCalls = <<>> /\ toolLog = <<>> /\ fs = tree0
       /\ tmp = {}

C6_Witness ==
  /\ pc = "returned"
  /\ ~TargetExists
  /\ ~ToolsPresent
  /\ exitStatus = {1}
  /\ \E f \in tree0 : MatchesAvi(f.ext)

\* C7: a per-file failure never stops the batch: the runner is called for
\* the discovered files in discovery order, each at most once; each time the
\* loop is at its head successful + failed is the number of files done, and
\* when the loop has ended every file was run once and
\* successful + failed is the number of discovered files.
C7_EveryFileRunOnce ==
  /\ Len(runnerCalls) <= Len(avi_files)
  /\ \A k \in DOMAIN runnerCalls :
       k <= Len(avi_files) => runnerCalls[k].file = avi_files[k]
  /\ \A j, k \in DOMAIN runnerCalls :
       j # k => runnerCalls[j].file # runnerCalls[k].file
  /\ pc = "loop" =>
       /\ successful + failed = Len(runnerCalls)
       /\ Len(results) = Len(runnerCalls)
       /\ idx = Len(runnerCalls) + 1
  /\ (pc = "summary" \/ (pc = "returned" /\ avi_files # <<>>)) =>
       /\ Len(runnerCalls) = Len(avi_files)
       /\ successful + failed = Len(avi_files)

C7_Witness ==
  /\ pc = "summary"
  /\ Len(avi_files) >= 2
  /\ Len(results) = Len(avi_files)
  /\ ~results[1].ret
  /\ results[2].ret

\* C8 as stated: every run that passes the fatal preconditions prints,
\* before it ends, a summary listing the total, the success and the failure
\* count, also when no file failed and when no file was found.
C8_SummaryAlwaysListsAllCounts ==
  CompletedRun =>
    /\ HasLineNamed("Total AVI files found")
    /\ HasLineNamed("Successfully converted")
    /\ HasLineNamed("Failed conversions")

\* C8 as amended: a run that passes the fatal preconditions and finds at
\* least one file prints, before it ends, the total and the success count,
\* and the failure count exactly when at least one file failed; a run that
\* finds no file prints only "No AVI files found" and runs neither tool.
C8_SummaryWhenFilesFound ==
  CompletedRun =>
    IF avi_files = <<>>
    THEN /\ stdout = << [line |-> "No AVI files found", n |-> 0] >>
         /\ toolLog = <<>>
    ELSE /\ HasLine("Total AVI files found", Len(avi_files))
         /\ HasLine("Successfully converted", NumResults(TRUE))
         /\ NumResults(FALSE) > 0 => HasLine("Failed conversions", NumResults(FALSE))
         /\ NumResults(FALSE) = 0 => ~HasLineNamed("Failed conversions")
         /\ ~HasLineNamed("No AVI files found")

C8_Witness ==
  /\ CompletedRun
  /\ Len(avi_files) >= 2
  /\ NumResults(TRUE) = Len(avi_files)
  /\ HasLine("Successfully converted", Len(avi_files))
  /\ ~HasLineNamed("Failed conversions")

\* C9: once the temporary directory is created, wherever main ends (no file
\* found, the loop completed, or a fault) the directory and the intermediate
\* files in it are removed; it is removed once, and only when main ends,
\* never while the batch is running.
C9_TempReleasedOnEveryExit ==
  /\ (pc \in Ended /\ tempState # "none") =>
       (tempState = "removed" /\ tmp = {})
  /\ cleanups <= 1
  /\ pc \in InWith => (tempState = "created" /\ cleanups = 0)
  /\ tempState = "removed" => (pc \in Ended /\ cleanups = 1)

C9_Witness ==
  /\ pc = "fault"
  /\ tempState = "removed"
  /\ tmp = {}
  /\ \E i \in DOMAIN toolLog : toolLog[i].tool = "mplayer" /\ toolLog[i].wrote
  /\ Len(results) < Len(avi_files)

\* C10: any two distinct discovered files have distinct intermediate paths,
\* and the intermediate file ffmpeg consumes for a file was written by the
\* invocation of mplayer for that same file.
C10_IntermediateIsTheFilesOwn ==
  /\ \A i, j \in DOMAIN avi_files :
       i # j => TempName(avi_files[i]) # TempName(avi_files[j])
  /\ \A i \in DOMAIN toolLog :
       toolLog[i].tool = "ffmpeg" => toolLog[i].src = toolLog[i].file

====
